---- MODULE Spec2Model ----
(***************************************************************************)
(* Model of fix_imports.py: the import rewriter that follows the move of   *)
(* components into features/ and components/{layout,common}.               *)
(*                                                                         *)
(* Text is a sequence of tokens.  The punctuation the regular expressions  *)
(* and the string tests look at (. / quotes ; parentheses, white space) is *)
(* one token per character; a word (import, from, lib, Settings, tsx ...)  *)
(* is one token.  A path under SRC_ROOT is a sequence of segments, each    *)
(* segment a sequence of tokens (<<"App", ".", "tsx">>).                   *)
(***************************************************************************)
EXTENDS Integers, Sequences, FiniteSets, Bags, TLC

(* ------------------------------ bounds --------------------------------- *)
MaxStmts == 2
MaxRuns == 2
MaxFiles == 2
MaxDepth == 3

(* ------------------------------ tokens --------------------------------- *)
DQ == "\""
SQ == "'"
SP == " "
NL == "\n"
Quotes == {DQ, SQ}
IsWs(t) == t \in {SP, NL}

Min(S) == CHOOSE x \in S : \A y \in S : x <= y

Last(s) == s[Len(s)]

(* ------------------------------ MAPPING -------------------------------- *)
MAPPING ==
    (<<"SetupWizard">> :> <<"features", "onboarding", "SetupWizard">>) @@
    (<<"RecordingControls">> :> <<"features", "capture", "RecordingControls">>) @@
    (<<"LiveTranscript">> :> <<"features", "capture", "LiveTranscript">>) @@
    (<<"MeetingDetectionBanner">> :> <<"features", "capture", "MeetingDetectionBanner">>) @@
    (<<"VideoDiagnostics">> :> <<"features", "capture", "VideoDiagnostics">>) @@
    (<<"MeetingHistory">> :> <<"features", "memory", "MeetingHistory">>) @@
    (<<"RewindTimeline">> :> <<"features", "memory", "RewindTimeline">>) @@
    (<<"RewindGallery">> :> <<"features", "memory", "RewindGallery">>) @@
    (<<"SyncedTimeline">> :> <<"features", "memory", "SyncedTimeline">>) @@
    (<<"AmbientTimeline">> :> <<"features", "memory", "AmbientTimeline">>) @@
    (<<"ActivityTimeline">> :> <<"features", "memory", "ActivityTimeline">>) @@
    (<<"RecordingsLibrary">> :> <<"features", "memory", "RecordingsLibrary">>) @@
    (<<"AIChat">> :> <<"features", "intelligence", "AIChat">>) @@
    (<<"CopilotPanel">> :> <<"features", "intelligence", "CopilotPanel">>) @@
    (<<"MeetingIntelPanel">> :> <<"features", "intelligence", "MeetingIntelPanel">>) @@
    (<<"LearnedDataEditor">> :> <<"features", "intelligence", "LearnedDataEditor">>) @@
    (<<"EntitiesView">> :> <<"features", "intelligence", "EntitiesView">>) @@
    (<<"PromptBrowser">> :> <<"features", "intelligence", "PromptBrowser">>) @@
    (<<"PromptLibrary">> :> <<"features", "intelligence", "PromptLibrary">>) @@
    (<<"ComparisonLab">> :> <<"features", "intelligence", "ComparisonLab">>) @@
    (<<"Settings">> :> <<"features", "settings", "Settings">>) @@
    (<<"FullSettings">> :> <<"features", "settings", "FullSettings">>) @@
    (<<"AISettings">> :> <<"features", "settings", "AISettings">>) @@
    (<<"IngestSettings">> :> <<"features", "settings", "IngestSettings">>) @@
    (<<"KnowledgeBaseSettings">> :> <<"features", "settings", "KnowledgeBaseSettings">>) @@
    (<<"PermissionsStatus">> :> <<"features", "settings", "PermissionsStatus">>) @@
    (<<"ThemeSelector">> :> <<"features", "settings", "ThemeSelector">>) @@
    (<<"TranscriptionSettings">> :> <<"features", "settings", "TranscriptionSettings">>) @@
    (<<"AlwaysOnSettings">> :> <<"features", "settings", "AlwaysOnSettings">>) @@
    (<<"ActivityThemesSettings">> :> <<"features", "settings", "ActivityThemesSettings">>) @@
    (<<"InsightsView">> :> <<"features", "analytics", "InsightsView">>) @@
    (<<"StorageMeter">> :> <<"features", "analytics", "StorageMeter">>) @@
    (<<"SystemStatus">> :> <<"features", "analytics", "SystemStatus">>) @@
    (<<"AuditLog">> :> <<"features", "analytics", "AuditLog">>) @@
    (<<"AdminConsole">> :> <<"features", "analytics", "AdminConsole">>) @@
    (<<"ToolsConsole">> :> <<"features", "analytics", "ToolsConsole">>) @@
    (<<"GlobalErrorBoundary">> :> <<"components", "common", "GlobalErrorBoundary">>) @@
    (<<"CommandPalette">> :> <<"components", "common", "CommandPalette">>) @@
    (<<"SearchBar">> :> <<"components", "common", "SearchBar">>) @@
    (<<"KBSearch">> :> <<"components", "common", "KBSearch">>) @@
    (<<"Sidebar">> :> <<"components", "layout", "Sidebar">>) @@
    (<<"Help">> :> <<"components", "layout", "Help">>)

(* `name in MAPPING` *)
InMapping(name) == name \in DOMAIN MAPPING

(* a MAPPING value "a/b/c" split into path segments *)
TargetSegs(to_target) == [i \in 1..Len(to_target) |-> <<to_target[i]>>]

(* --------------------------- path arithmetic --------------------------- *)
UP == <<".", ".">>
CUR == <<".">>

(* os.path.dirname of a path given by its segments *)
dirname(path) == SubSeq(path, 1, Len(path) - 1)

(* length of the common leading run of segments of two paths *)
CommonLen(a, b) ==
    LET n == IF Len(a) <= Len(b) THEN Len(a) ELSE Len(b)
        D == {i \in 1..n : a[i] # b[i]}
    IN  IF D = {} THEN n ELSE Min(D) - 1

(* os.path.relpath(path, start), both given relative to SRC_ROOT *)
relpath(path, start) ==
    LET i == CommonLen(start, path)
        rel_list == [k \in 1..(Len(start) - i) |-> UP] \o SubSeq(path, i + 1, Len(path))
    IN  IF rel_list = <<>> THEN <<CUR>> ELSE rel_list

(* "/".join(segments) as text *)
RECURSIVE JoinSlash(_)
JoinSlash(segs) ==
    IF Len(segs) = 0 THEN <<>>
    ELSE IF Len(segs) = 1 THEN segs[1]
    ELSE segs[1] \o <<"/">> \o JoinSlash(Tail(segs))

(* str.startswith('.') *)
StartsWithDot(text) == Len(text) >= 1 /\ text[1] = "."

get_relative_path(from_file, to_target) ==
    LET from_dir == dirname(from_file)
        target_abs == TargetSegs(to_target)
        rel == JoinSlash(relpath(target_abs, from_dir))
    IN  IF ~StartsWithDot(rel) THEN <<".", "/">> \o rel ELSE rel

(* ------------------------- file classification ------------------------- *)
(* str.endswith(suffix) on token text *)
EndsWith(text, suffix) ==
    Len(text) >= Len(suffix)
    /\ SubSeq(text, Len(text) - Len(suffix) + 1, Len(text)) = suffix

(* main: file.endswith('.tsx') or file.endswith('.ts') *)
IsSourceFile(path) ==
    EndsWith(Last(path), <<".", "tsx">>) \/ EndsWith(Last(path), <<".", "ts">>)

(* off by one in the depth test: src/features/File.tsx counts as relocated *)
is_moved_feature_file_shallow(parts) == parts[1] = <<"features">> /\ Len(parts) >= 2

(* parts = os.path.relpath(filepath, SRC_ROOT).split(os.sep) *)
is_moved_feature_file(parts) == parts[1] = <<"features">> /\ Len(parts) >= 3

is_moved_layout_file(parts) ==
    parts[1] = <<"components">>
    /\ (parts[2] = <<"layout">> \/ parts[2] = <<"common">>)

IsMoved(parts) == is_moved_feature_file(parts) \/ is_moved_layout_file(parts)

(* --------------------------- depth correction -------------------------- *)
folders == <<"lib", "hooks", "contexts", "assets", "utils", "types">>

(* words of the model's alphabet that begin with the letters of a folder   *)
(* name: the pattern \.\./lib also matches the head of ../library          *)
BeginsWith(word, folder) ==
    word = folder \/ <<word, folder>> \in {<<"library", "lib">>}

(* \.\./folder matches at position i *)
RefAt(s, i, folder) ==
    /\ i + 3 <= Len(s)
    /\ s[i] = "." /\ s[i + 1] = "." /\ s[i + 2] = "/"
    /\ BeginsWith(s[i + 3], folder)

(* the lookbehind left out *)
UpBefore_never(s, i) == FALSE

(* the three characters before position i are ../ *)
UpBefore(s, i) == i > 3 /\ s[i - 3] = "." /\ s[i - 2] = "." /\ s[i - 1] = "/"

(* (?<!\.\./)\.\./folder matches at position i *)
depth_pattern(s, i, folder) == RefAt(s, i, folder) /\ ~UpBefore(s, i)

(* pattern.sub(f'../../{folder}', s), scanning from position i *)
RECURSIVE depth_sub(_, _, _)
depth_sub(s, i, folder) ==
    IF i > Len(s) THEN <<>>
    ELSE IF depth_pattern(s, i, folder)
         THEN <<".", ".", "/", ".", ".", "/", s[i + 3]>> \o depth_sub(s, i + 4, folder)
         ELSE <<s[i]>> \o depth_sub(s, i + 1, folder)

(* the loop over the folders, from the k-th folder on *)
RECURSIVE depth_loop(_, _)
depth_loop(s, k) ==
    IF k > Len(folders) THEN s
    ELSE depth_loop(depth_sub(s, 1, folders[k]), k + 1)

(* the depth correction applied to every file *)
DepthStep_everywhere(parts, text) == depth_loop(text, 1)

DepthStep(parts, text) == IF IsMoved(parts) THEN depth_loop(text, 1) ELSE text

(* --------------------------- import patterns --------------------------- *)
NoMatch == [found |-> FALSE]

(* first position >= p that holds no white space *)
RECURSIVE SkipWs(_, _)
SkipWs(s, p) == IF p <= Len(s) /\ IsWs(s[p]) THEN SkipWs(s, p + 1) ELSE p

QuotesAfter(s, k) == {x \in (k + 1)..Len(s) : s[x] \in Quotes}

(* (import\s+.*?from\s+)(["\'])(.*?)(["\'];?) with re.DOTALL, tried at i *)
import_pattern(s, i) ==
    IF ~(i + 1 <= Len(s) /\ s[i] = "import" /\ IsWs(s[i + 1])) THEN NoMatch
    ELSE
      LET Froms == {j \in (i + 2)..Len(s) :
                      /\ s[j] = "from"
                      /\ j + 1 <= Len(s) /\ IsWs(s[j + 1])
                      /\ SkipWs(s, j + 1) <= Len(s)
                      /\ s[SkipWs(s, j + 1)] \in Quotes
                      /\ QuotesAfter(s, SkipWs(s, j + 1)) # {}}
      IN  IF Froms = {} THEN NoMatch
          ELSE
            LET j == Min(Froms)
                k == SkipWs(s, j + 1)
                m == Min(QuotesAfter(s, k))
                e == IF m + 1 <= Len(s) /\ s[m + 1] = ";" THEN m + 1 ELSE m
            IN  [found |-> TRUE, first |-> i, last |-> e,
                 g1 |-> SubSeq(s, i, k - 1), g2 |-> s[k],
                 g3 |-> SubSeq(s, k + 1, m - 1), g4 |-> SubSeq(s, m, e)]

(* (import\()(["\'])(.*?)(["\']\)) tried at i; . does not match a newline *)
dynamic_import_pattern(s, i) ==
    IF ~(i + 2 <= Len(s) /\ s[i] = "import" /\ s[i + 1] = "(" /\ s[i + 2] \in Quotes)
    THEN NoMatch
    ELSE
      LET k == i + 2
          Ends == {x \in (k + 1)..(Len(s) - 1) :
                     /\ s[x] \in Quotes
                     /\ s[x + 1] = ")"
                     /\ \A y \in (k + 1)..(x - 1) : s[y] # NL}
      IN  IF Ends = {} THEN NoMatch
          ELSE
            LET m == Min(Ends)
            IN  [found |-> TRUE, first |-> i, last |-> m + 1,
                 g1 |-> SubSeq(s, i, i + 1), g2 |-> s[k],
                 g3 |-> SubSeq(s, k + 1, m - 1), g4 |-> SubSeq(s, m, m + 1)]

MatchAt(kind, s, i) ==
    IF kind = "static" THEN import_pattern(s, i) ELSE dynamic_import_pattern(s, i)

(* the matches re.sub visits: leftmost first, not overlapping *)
RECURSIVE finditer(_, _, _)
finditer(kind, s, i) ==
    IF i > Len(s) THEN <<>>
    ELSE LET m == MatchAt(kind, s, i)
         IN  IF m.found THEN <<m>> \o finditer(kind, s, m.last + 1)
             ELSE finditer(kind, s, i + 1)

full_match(m) == m.g1 \o <<m.g2>> \o m.g3 \o m.g4

(* ---------------------------- replace_import --------------------------- *)
Slashes(text) == {x \in 1..Len(text) : text[x] = "/"}

Max(S) == CHOOSE x \in S : \A y \in S : x >= y

(* os.path.basename *)
basename(path_str) ==
    IF Slashes(path_str) = {} THEN path_str
    ELSE SubSeq(path_str, Max(Slashes(path_str)) + 1, Len(path_str))

(* os.path.splitext(name)[0]; a name made of leading dots and one word has *)
(* no extension                                                            *)
splitext_root(name) ==
    LET Dots == {x \in 1..Len(name) : name[x] = "."}
        d == Max(Dots)
    IN  IF Dots = {} THEN name
        ELSE IF \A x \in 1..(d - 1) : name[x] = "." THEN name
        ELSE SubSeq(name, 1, d - 1)

(* the extension sliced off without the endswith test *)
StripExt_unguarded(name) ==
    IF EndsWith(name, <<".", "tsx">>) \/ EndsWith(name, <<".", "ts">>)
    THEN splitext_root(name)
    ELSE SubSeq(name, 1, Len(name) - 1)

(* the basename with a trailing .tsx / .ts removed *)
StripExt(name) ==
    IF EndsWith(name, <<".", "tsx">>) \/ EndsWith(name, <<".", "ts">>)
    THEN splitext_root(name)
    ELSE name

(* "components/" in path_str *)
HasComponentsDir(path_str) ==
    \E x \in 1..(Len(path_str) - 1) : path_str[x] = "components" /\ path_str[x + 1] = "/"

(* return match.group(1) + quote + new_rel + quote + match.group(4) *)
Rewritten(filepath, m, name) ==
    m.g1 \o <<m.g2>> \o get_relative_path(filepath, MAPPING[name]) \o <<m.g2>> \o m.g4

(* the special case for "components/..." paths *)
SecondaryRule(filepath, m) ==
    IF HasComponentsDir(m.g3) /\ InMapping(basename(m.g3))
    THEN Rewritten(filepath, m, basename(m.g3))
    ELSE full_match(m)

replace_import(filepath, m) ==
    IF ~StartsWithDot(m.g3) THEN full_match(m)
    ELSE IF EndsWith(m.g3, <<".", "css">>) THEN full_match(m)
    ELSE IF InMapping(StripExt(basename(m.g3)))
         THEN Rewritten(filepath, m, StripExt(basename(m.g3)))
    ELSE SecondaryRule(filepath, m)

(* pattern.sub(replace_import, s): the text between the matches is kept *)
RECURSIVE Assemble(_, _, _, _)
Assemble(filepath, s, ms, i) ==
    IF ms = <<>> THEN SubSeq(s, i, Len(s))
    ELSE SubSeq(s, i, Head(ms).first - 1)
         \o replace_import(filepath, Head(ms))
         \o Assemble(filepath, s, Tail(ms), Head(ms).last + 1)

sub(kind, filepath, s) == Assemble(filepath, s, finditer(kind, s, 1), 1)

(* the calls of replace_import one sub makes, with what each returned *)
CallsOf(kind, filepath, s) ==
    LET ms == finditer(kind, s, 1)
    IN  [n \in 1..Len(ms) |->
           [kind |-> kind, g1 |-> ms[n].g1, g2 |-> ms[n].g2,
            g3 |-> ms[n].g3, g4 |-> ms[n].g4,
            result |-> replace_import(filepath, ms[n])]]

(* ------------------------------- inputs -------------------------------- *)
Static(binding, q1, path, q2, rest) ==
    <<"import", SP, binding, SP, "from", SP, q1>> \o path \o <<q2>> \o rest

Dynamic(q1, path, q2) == <<"import", "(", q1>> \o path \o <<q2, ")">>

Stmts ==
    { Static("S", DQ, <<".", "/", "components", "/", "Settings">>, DQ, <<";">>),
      Static("S", SQ, <<".", ".", "/", "Sidebar">>, SQ, <<>>),
      Dynamic(DQ, <<".", "/", "Settings">>, DQ),
      Static("x", DQ, <<".", ".", "/", "lib", "/", "api">>, DQ, <<";">>),
      Static("x", SQ, <<".", ".", "/", ".", ".", "/", "hooks", "/", "useX">>, SQ, <<";">>),
      Static("r", DQ, <<"react">>, DQ, <<";">>),
      Static("x", DQ, <<"pkg", "/", ".", ".", "/", "lib", "/", "x">>, DQ, <<";">>),
      Static("S", DQ, <<".", ".", "/", "lib", "/", "Settings">>, DQ, <<";">>),
      Static("c", SQ, <<".", "/", "VideoDiagnostics", ".", "module", ".", "css">>, SQ, <<";">>),
      Static("H", DQ, <<".", "/", "components", "/", "Help", ".", "tsx">>, DQ, <<";">>),
      Dynamic(SQ, <<".", "/", "components", "/", "Other">>, SQ),
      Dynamic(SQ, <<".", ".", "/", "library", "/", "x">>, SQ),
      Dynamic(DQ, <<"react">>, DQ),
      Static("S", DQ, <<".", "/", "Settings">>, SQ, <<";">>),
      <<"import", SP, DQ, ".", "/", "Settings", DQ, ";">>,
      <<"//", SP, ".", ".", "/", "utils">> }

(* a file's text: up to n statements, one per line *)
RECURSIVE Texts(_)
Texts(n) ==
    IF n = 1 THEN Stmts
    ELSE Texts(n - 1) \cup {t \o <<NL>> \o st : t \in Texts(n - 1), st \in Stmts}

App_tsx == << <<"App", ".", "tsx">> >>
FullSettings_tsx == << <<"features">>, <<"settings">>, <<"FullSettings", ".", "tsx">> >>
Sidebar_tsx == << <<"components">>, <<"layout">>, <<"Sidebar", ".", "tsx">> >>
Button_tsx == << <<"components">>, <<"Button", ".", "tsx">> >>
features_index_ts == << <<"features">>, <<"index", ".", "ts">> >>
app_css == << <<"styles">>, <<"app", ".", "css">> >>

Files == {App_tsx, FullSettings_tsx, Sidebar_tsx, Button_tsx, features_index_ts, app_css}

NoFile == <<>>

(* ------------------------------- state --------------------------------- *)
VARIABLES disk, io, pc, pending, processed, updated, runs,
          filepath, content, new_content, calls,
          from_file, to_target, rel

vars == <<disk, io, pc, pending, processed, updated, runs,
          filepath, content, new_content, calls, from_file, to_target, rel>>

locals == <<filepath, content, new_content, calls>>
resolver == <<from_file, to_target, rel>>

InitCommon ==
    /\ pc = "idle"
    /\ pending = {}
    /\ processed = {}
    /\ updated = {}
    /\ runs = 0
    /\ filepath = NoFile
    /\ content = <<>>
    /\ new_content = <<>>
    /\ calls = <<>>
    /\ from_file = NoFile
    /\ to_target = <<>>
    /\ rel = <<>>

(* one file under SRC_ROOT, every read and write succeeds *)
Init ==
    /\ \E f \in Files, t \in Texts(MaxStmts) : disk = (f :> t)
    /\ io = [f \in DOMAIN disk |-> "ok"]
    /\ InitCommon

(* ------------------------------- main ---------------------------------- *)
(* print("Starting import fix...") and the start of os.walk *)
main_start ==
    /\ pc \in {"idle", "done"}
    /\ runs < MaxRuns
    /\ pc' = "walk"
    /\ pending' = DOMAIN disk
    /\ processed' = {}
    /\ updated' = {}
    /\ UNCHANGED <<disk, io, runs, locals, resolver>>

(* a file that ends in neither .tsx nor .ts *)
main_skip(f) ==
    /\ pc = "walk"
    /\ f \in pending
    /\ ~IsSourceFile(f)
    /\ pending' = pending \ {f}
    /\ UNCHANGED <<disk, io, pc, processed, updated, runs, locals, resolver>>

(* print("Done.") *)
main_done ==
    /\ pc = "walk"
    /\ pending = {}
    /\ pc' = "done"
    /\ runs' = runs + 1
    /\ UNCHANGED <<disk, io, pending, processed, updated, locals, resolver>>

(* -------------------------- fix_imports_in_file ------------------------ *)
(* with open(filepath, 'r') as f: content = f.read(); new_content = content *)
read_file(f) ==
    /\ pc = "walk"
    /\ f \in pending
    /\ IsSourceFile(f)
    /\ io[f] # "unreadable"
    /\ filepath' = f
    /\ content' = disk[f]
    /\ new_content' = disk[f]
    /\ calls' = <<>>
    /\ pc' = "depth"
    /\ UNCHANGED <<disk, io, pending, processed, updated, runs, resolver>>

(* open(filepath, 'r') raises; nothing catches it *)
read_fails(f) ==
    /\ pc = "walk"
    /\ f \in pending
    /\ IsSourceFile(f)
    /\ io[f] = "unreadable"
    /\ pc' = "crashed"
    /\ UNCHANGED <<disk, io, pending, processed, updated, runs, locals, resolver>>

(* 1. Fix generic imports (../lib, ../hooks, etc) ONLY for moved files *)
depth_step ==
    /\ pc = "depth"
    /\ new_content' = DepthStep(filepath, new_content)
    /\ pc' = "static"
    /\ UNCHANGED <<disk, io, pending, processed, updated, runs,
                   filepath, content, calls, resolver>>

(* new_content = import_pattern.sub(replace_import, new_content) *)
static_step ==
    /\ pc = "static"
    /\ new_content' = sub("static", filepath, new_content)
    /\ calls' = calls \o CallsOf("static", filepath, new_content)
    /\ pc' = "dynamic"
    /\ UNCHANGED <<disk, io, pending, processed, updated, runs,
                   filepath, content, resolver>>

(* new_content = dynamic_import_pattern.sub(replace_import, new_content) *)
dynamic_step ==
    /\ pc = "dynamic"
    /\ new_content' = sub("dynamic", filepath, new_content)
    /\ calls' = calls \o CallsOf("dynamic", filepath, new_content)
    /\ pc' = "persist"
    /\ UNCHANGED <<disk, io, pending, processed, updated, runs,
                   filepath, content, resolver>>

(* the comparison left out: every file is written back *)
ShouldWrite_always(old, new) == TRUE

ShouldWrite(old, new) == new # old

Returned ==
    /\ pending' = pending \ {filepath}
    /\ processed' = processed \cup {filepath}
    /\ pc' = "walk"

(* if new_content != content: print Updating; open(filepath, 'w'); write *)
write_file ==
    /\ pc = "persist"
    /\ ShouldWrite(content, new_content)
    /\ io[filepath] # "unwritable"
    /\ disk' = [disk EXCEPT ![filepath] = new_content]
    /\ updated' = updated \cup {filepath}
    /\ Returned
    /\ UNCHANGED <<io, runs, locals, resolver>>

(* open(filepath, 'w') raises; nothing catches it *)
write_fails ==
    /\ pc = "persist"
    /\ ShouldWrite(content, new_content)
    /\ io[filepath] = "unwritable"
    /\ pc' = "crashed"
    /\ UNCHANGED <<disk, io, pending, processed, updated, runs, locals, resolver>>

(* new_content == content: the file is not opened for writing *)
keep_file ==
    /\ pc = "persist"
    /\ ~ShouldWrite(content, new_content)
    /\ Returned
    /\ UNCHANGED <<disk, io, updated, runs, locals, resolver>>

Next ==
    \/ main_start
    \/ \E f \in DOMAIN disk : main_skip(f)
    \/ \E f \in DOMAIN disk : read_file(f)
    \/ depth_step
    \/ static_step
    \/ dynamic_step
    \/ write_file
    \/ keep_file
    \/ main_done

Spec == Init /\ [][Next]_vars

(* ---------------------- runs with failing file I/O --------------------- *)
MainTexts ==
    { Static("S", DQ, <<".", "/", "components", "/", "Settings">>, DQ, <<";">>),
      Static("r", DQ, <<"react">>, DQ, <<";">>) }

MainFiles == {App_tsx, FullSettings_tsx, Sidebar_tsx, app_css}

Trees == {T \in SUBSET MainFiles : 1 <= Cardinality(T) /\ Cardinality(T) <= MaxFiles}

MainInit ==
    /\ \E T \in Trees : disk \in [T -> MainTexts]
    /\ io \in [DOMAIN disk -> {"ok", "unreadable", "unwritable"}]
    /\ InitCommon

MainNext ==
    \/ Next
    \/ \E f \in DOMAIN disk : read_fails(f)
    \/ write_fails

MainSpec == MainInit /\ [][MainNext]_vars

(* ----------------------- the resolver on its own ----------------------- *)
DirNames == {<<"features">>, <<"components">>, <<"settings">>, <<"layout">>, <<"Settings">>}

RECURSIVE Dirs(_)
Dirs(n) ==
    IF n = 0 THEN {<<>>}
    ELSE Dirs(n - 1) \cup {Append(d, x) : d \in Dirs(n - 1), x \in DirNames}

RecordingControls_tsx == << <<"features">>, <<"capture">>, <<"RecordingControls", ".", "tsx">> >>

PathFiles ==
    {Append(d, <<"index", ".", "ts">>) : d \in Dirs(MaxDepth)} \cup {RecordingControls_tsx}

Targets == {MAPPING[k] : k \in DOMAIN MAPPING}

PathInit ==
    /\ disk = <<>>
    /\ io = <<>>
    /\ pc = "resolve"
    /\ pending = {}
    /\ processed = {}
    /\ updated = {}
    /\ runs = 0
    /\ filepath = NoFile
    /\ content = <<>>
    /\ new_content = <<>>
    /\ calls = <<>>
    /\ from_file \in PathFiles
    /\ to_target \in Targets
    /\ rel = <<>>

resolve ==
    /\ pc = "resolve"
    /\ rel' = get_relative_path(from_file, to_target)
    /\ pc' = "resolved"
    /\ UNCHANGED <<disk, io, pending, processed, updated, runs, locals,
                   from_file, to_target>>

PathNext == resolve

PathSpec == PathInit /\ [][PathNext]_vars

(* ----------------------- vocabulary of the properties ------------------ *)
(* a ../<folder> reference starts at position i *)
IsRef(s, i) == \E n \in 1..Len(folders) : RefAt(s, i, folders[n])

(* the ../<folder> references of a text, in order: the word after ../ and  *)
(* whether the reference is itself preceded by ../                         *)
RECURSIVE Refs(_, _)
Refs(s, i) ==
    IF i > Len(s) THEN <<>>
    ELSE IF IsRef(s, i) THEN << <<s[i + 3], UpBefore(s, i)>> >> \o Refs(s, i + 1)
    ELSE Refs(s, i + 1)

RECURSIVE BagOf(_)
BagOf(q) == IF q = <<>> THEN EmptyBag ELSE SetToBag({Head(q)}) (+) BagOf(Tail(q))

(* positions of the references the depth correction rewrites *)
Unguarded(s) == {i \in 1..Len(s) : \E n \in 1..Len(folders) : depth_pattern(s, i, folders[n])}

CallsOfKind(kind) ==
    LET OfKind(c) == c.kind = kind
    IN  SelectSeq(calls, OfKind)

WasRewritten(c) == c.result # full_match(c)

LogicalName(path_str) == StripExt(basename(path_str))

(* splits text at every "/" *)
RECURSIVE SplitSlash(_)
SplitSlash(text) ==
    IF Slashes(text) = {} THEN <<text>>
    ELSE <<SubSeq(text, 1, Min(Slashes(text)) - 1)>>
         \o SplitSlash(SubSeq(text, Min(Slashes(text)) + 1, Len(text)))

(* where a relative path leads when followed from a directory *)
RECURSIVE Walk(_, _)
Walk(dir, segs) ==
    IF segs = <<>> THEN dir
    ELSE IF Head(segs) = CUR THEN Walk(dir, Tail(segs))
    ELSE IF Head(segs) = UP THEN Walk(SubSeq(dir, 1, Len(dir) - 1), Tail(segs))
    ELSE Walk(Append(dir, Head(segs)), Tail(segs))

(* C1: idempotence of the full pass: a second run over the tree finds      *)
(* nothing left to change, the text it computes is the text it read.       *)
C1_SecondRunChangesNothing ==
    (pc = "persist" /\ runs >= 1) => new_content = content

(* C2: a statement replace_import rewrites is the input statement with     *)
(* only the path literal replaced: same prefix, same opening quote, one    *)
(* closing quote and the same trailing syntax.                             *)
C2_OnlyPathLiteralReplaced ==
    \A n \in DOMAIN calls :
      LET c == calls[n]
          r == c.result
          lo == Len(c.g1) + 2
          hi == Len(r) - Len(c.g4)
      IN  WasRewritten(c) =>
            /\ Len(r) >= Len(c.g1) + 1 + Len(c.g4)
            /\ SubSeq(r, 1, Len(c.g1) + 1) = c.g1 \o <<c.g2>>
            /\ SubSeq(r, hi + 1, Len(r)) = c.g4
            /\ \A x \in lo..hi : r[x] \notin Quotes

(* C3: an import whose path literal already is the path the resolver       *)
(* computes is left unchanged; import("./Settings") in                     *)
(* src/features/settings/FullSettings.tsx is byte-identical afterwards.    *)
C3_SameDirectoryUnchanged ==
    /\ \A n \in DOMAIN calls :
         LET c == calls[n]
         IN  (/\ InMapping(LogicalName(c.g3))
              /\ c.g3 = get_relative_path(filepath, MAPPING[LogicalName(c.g3)]))
             => c.result = full_match(c)
    /\ (/\ pc = "persist"
        /\ filepath = FullSettings_tsx
        /\ content = Dynamic(DQ, <<".", "/", "Settings">>, DQ))
       => new_content = content

(* C4: get_relative_path returns the segment-wise relative path from the   *)
(* file's directory to SRC_ROOT/to_target, and the result always begins    *)
(* with ./ or ../; RecordingControls.tsx to components/layout/Sidebar      *)
(* gives ../../components/layout/Sidebar.                                  *)
C4_ResolverResult ==
    pc = "resolved" =>
      LET from_dir == dirname(from_file)
          target == TargetSegs(to_target)
          segs == SplitSlash(rel)
          body == IF Head(segs) = CUR THEN Tail(segs) ELSE segs
          i == CommonLen(from_dir, target)
      IN  /\ Walk(from_dir, segs) = target
          /\ body = [k \in 1..(Len(from_dir) - i) |-> UP]
                    \o SubSeq(target, i + 1, Len(target))
          /\ \/ (Len(rel) >= 2 /\ SubSeq(rel, 1, 2) = <<".", "/">>)
             \/ (Len(rel) >= 3 /\ SubSeq(rel, 1, 3) = <<".", ".", "/">>)
          /\ (from_file = RecordingControls_tsx
              /\ to_target = <<"components", "layout", "Sidebar">>)
             => rel = <<".", ".", "/", ".", ".", "/",
                        "components", "/", "layout", "/", "Sidebar">>

(* C5: a file that cannot be read or written stops at most its own         *)
(* processing: when the run stops it has reached its completion step and   *)
(* every source file without an I/O fault has been processed.              *)
C5_FailureContained ==
    pc \in {"done", "crashed"} =>
      /\ pc = "done"
      /\ \A f \in DOMAIN disk : (IsSourceFile(f) /\ io[f] = "ok") => f \in processed

(* the files the claims call relocated: under features/ with three or     *)
(* more path segments, or under components/layout or components/common    *)
Relocated(parts) ==
    \/ (Len(parts) >= 3 /\ parts[1] = <<"features">>)
    \/ (Len(parts) >= 3 /\ parts[1] = <<"components">>
        /\ parts[2] \in {<<"layout">>, <<"common">>})

(* C6 as claimed: in a file that is not relocated no ../<folder> reference *)
(* of the text is altered, wherever it occurs.                             *)
C6_NoReferenceAltered ==
    (pc = "persist" /\ ~Relocated(filepath)) => Refs(new_content, 1) = Refs(content, 1)

RECURSIVE RewrittenRefs(_)
RewrittenRefs(cs) ==
    IF cs = <<>> THEN EmptyBag
    ELSE (IF WasRewritten(Head(cs)) THEN BagOf(Refs(Head(cs).g3, 1)) ELSE EmptyBag)
         (+) RewrittenRefs(Tail(cs))

(* C6 as amended: in a file that is not relocated the ../<folder>          *)
(* references of the result are those of the text read, less the ones that *)
(* stood inside the path literal of an import replace_import rewrote.      *)
C6_ReferencesOutsideRewrittenPaths ==
    (pc = "persist" /\ ~Relocated(filepath)) =>
      BagOf(Refs(content, 1)) = BagOf(Refs(new_content, 1)) (+) RewrittenRefs(calls)

C6_Witness ==
    /\ pc = "persist"
    /\ ~Relocated(filepath)
    /\ Refs(new_content, 1) # <<>>
    /\ Len(Refs(new_content, 1)) < Len(Refs(content, 1))

(* an import match of either pattern names a MAPPING key, or a relocated   *)
(* file holds a single-level-up reference to a shared folder               *)
HasRelocatable(parts, text) ==
    \/ \E kind \in {"static", "dynamic"} :
         LET ms == finditer(kind, text, 1)
         IN  \E k \in DOMAIN ms : InMapping(LogicalName(ms[k].g3))
    \/ (IsMoved(parts) /\ Unguarded(text) # {})

(* C7: fix_imports_in_file writes the file if and only if the text it      *)
(* computed differs from the text it read; a file with no relocatable      *)
(* reference is not written and keeps its content.                         *)
C7_WriteIffChanged ==
    (pc \in {"walk", "done"} /\ filepath \in processed) =>
      /\ (filepath \in updated) <=> (new_content # content)
      /\ disk[filepath] = new_content
      /\ ~HasRelocatable(filepath, content) =>
           (filepath \notin updated /\ disk[filepath] = content)

C7_Witness ==
    /\ pc = "walk"
    /\ filepath \in processed
    /\ filepath \notin updated
    /\ calls # <<>>
    /\ Refs(content, 1) # <<>>
    /\ ~HasRelocatable(filepath, content)

(* the statement of a match is one the pass-through rule covers *)
PassesThrough(m) == ~StartsWithDot(m.g3) /\ ~InMapping(LogicalName(m.g3))

(* C8 as claimed: in any file an import whose path literal does not begin  *)
(* with . and whose basename is no MAPPING key is byte-identical before    *)
(* and after the depth correction and the import correction.               *)
C8_PassThroughUnchanged ==
    pc = "persist" =>
      \A kind \in {"static", "dynamic"} :
        LET ms == finditer(kind, content, 1)
            cs == CallsOfKind(kind)
        IN  /\ Len(cs) = Len(ms)
            /\ \A k \in DOMAIN ms :
                 PassesThrough(ms[k]) => cs[k].result = full_match(ms[k])

(* C8 as amended: such an import is byte-identical before and after unless *)
(* the file is relocated and the statement holds a ../<folder> reference   *)
(* not preceded by ../, which the depth correction rewrites.               *)
C8_PassThroughUnlessDepthCorrected ==
    pc = "persist" =>
      \A kind \in {"static", "dynamic"} :
        LET ms == finditer(kind, content, 1)
            cs == CallsOfKind(kind)
        IN  /\ Len(cs) = Len(ms)
            /\ \A k \in DOMAIN ms :
                 (/\ PassesThrough(ms[k])
                  /\ (~IsMoved(filepath) \/ Unguarded(full_match(ms[k])) = {}))
                 => cs[k].result = full_match(ms[k])

C8_Witness ==
    /\ pc = "persist"
    /\ IsMoved(filepath)
    /\ new_content # content
    /\ LET ms == finditer("static", content, 1)
       IN  \E k \in DOMAIN ms :
             /\ PassesThrough(ms[k])
             /\ Unguarded(full_match(ms[k])) = {}

(* C9: in a relocated file the depth correction turns every ../<folder>    *)
(* not preceded by ../ into ../../<folder> and leaves those preceded by    *)
(* ../ alone, so that applying it again changes nothing.                   *)
C9_DepthCorrectionGuard ==
    (pc = "static" /\ IsMoved(filepath)) =>
      /\ Unguarded(new_content) = {}
      /\ DepthStep(filepath, new_content) = new_content
      /\ DepthStep(filepath, DepthStep(filepath, new_content)) = new_content
      /\ Len(new_content) = Len(content) + 3 * Cardinality(Unguarded(content))
      /\ [k \in DOMAIN Refs(new_content, 1) |-> Refs(new_content, 1)[k][1]]
           = [k \in DOMAIN Refs(content, 1) |-> Refs(content, 1)[k][1]]
      /\ \A k \in DOMAIN Refs(new_content, 1) : Refs(new_content, 1)[k][2]

C9_Witness ==
    /\ pc = "static"
    /\ IsMoved(filepath)
    /\ new_content # content
    /\ \E k \in DOMAIN Refs(content, 1) : Refs(content, 1)[k][2]

(* replace_import without the special case for "components/..." paths *)
replace_import_primary(file, m) ==
    IF ~StartsWithDot(m.g3) THEN full_match(m)
    ELSE IF EndsWith(m.g3, <<".", "css">>) THEN full_match(m)
    ELSE IF InMapping(StripExt(basename(m.g3)))
         THEN Rewritten(file, m, StripExt(basename(m.g3)))
    ELSE full_match(m)

(* C10: the secondary components/ rule never decides: a basename that is   *)
(* no MAPPING key once its extension is stripped is no MAPPING key as it   *)
(* stands, and every call returns what the primary lookup alone returns.   *)
C10_SecondaryNeverDecides ==
    \A n \in DOMAIN calls :
      LET c == calls[n]
      IN  /\ ~InMapping(StripExt(basename(c.g3))) => ~InMapping(basename(c.g3))
          /\ c.result = replace_import_primary(filepath, c)

C10_Witness ==
    \E n \in DOMAIN calls :
      LET c == calls[n]
      IN  /\ StartsWithDot(c.g3)
          /\ ~EndsWith(c.g3, <<".", "css">>)
          /\ HasComponentsDir(c.g3)
          /\ ~InMapping(StripExt(basename(c.g3)))
          /\ c.result = full_match(c)

====
